---- MODULE Spec2Model ----
(***************************************************************************)
(* Model of App.py, the "AI Finance Battleboard" Streamlit quiz.           *)
(*                                                                         *)
(* Every browser session runs the script top to bottom in its own thread   *)
(* with its own st.session_state.  The threads share the score file        *)
(* (user_scores.csv), the question file and the state of the module-level  *)
(* random generator.  st.experimental_rerun() ends a script run, so each   *)
(* script run is one step, except the two functions that touch shared      *)
(* state in several places: get_user_mcqs (seed, then one generator draw   *)
(* per swap of the shuffle) and save_score (read the file, then write it). *)
(***************************************************************************)
EXTENDS Integers, Sequences, FiniteSets, TLC

\* ---------------------------------------------------------------- bounds
\* Length of the slice questions[:20] and of the quiz (scaled down).
K == 2
\* Size of the state space of the stand-in random generator.
RngMod == 16
\* Clock: time.time() is sampled every TickStep seconds up to MaxNow.
TickStep == 30
MaxNow == 60
\* Longest score file the leaderboard specification starts from.
MaxRows == 3

\* ------------------------------------------------------------- constants
\* Seconds per question: remaining = max(0, 30 - int(elapsed)).
T == 30

\* The browser sessions (threads) that exist.
Sess == {1, 2}
\* Texts typed into the "Roll Number" box: one that is not a number and one
\* that pandas.read_csv reads as the integer 7.
Rolls == {"R1", "07"}
\* Texts typed into the "Full Name" box.
Names == {"Ann"}
\* Lengths of the question file's list: one below the slice length, one above.
PoolLens == {K - 1, K + 1}

\* --------------------------------------------------------- question file
\* A question is named by its position in the file; every question offers
\* the options "a" and "b" and q["answer"] is one of them.
Options == {"a", "b"}

Answer(q) == IF q % 2 = 1 THEN "a" ELSE "b"

\* json.load(f): the list of the file's questions
load_mcqs(n) == [i \in 1..n |-> i]

\* ------------------------------------------------------ random generator
\* random.seed that mixes the text into the state the generator is in.
SeedMix(g, r) ==
    (g + (CASE r = "R1" -> 1 [] r = "07" -> 2 [] OTHER -> 0)) % RngMod

\* random.seed(str) on a generator in state g: the new state is a function
\* of the text alone.
random_seed(g, r) == CASE r = "R1" -> 1
                      [] r = "07" -> 2
                      [] OTHER -> 0

\* One draw advances the generator.
RngNext(g) == (3 * g + 1) % RngMod

\* randbelow(n) read off the advanced state
RandBelow(g, n) == (RngNext(g) \div 2) % n

\* x[i], x[j] = x[j], x[i]
Swap(x, i, j) == [x EXCEPT ![i] = x[j], ![j] = x[i]]

\* questions[:20]
Take(x, k) == SubSeq(x, 1, IF Len(x) < k THEN Len(x) ELSE k)

\* random.shuffle(x) run without interruption from the generator state g,
\* i being the loop index
RECURSIVE shuffle(_, _, _)
shuffle(x, g, i) ==
    IF i < 1 THEN x
    ELSE shuffle(Swap(x, i + 1, RandBelow(g, i + 1) + 1), RngNext(g), i - 1)

\* get_user_mcqs(seed) run alone on the question list p
get_user_mcqs(p, seed) == Take(shuffle(p, random_seed(0, seed), Len(p) - 1), K)

\* --------------------------------------------------------------- CSV file
\* A row of user_scores.csv is three cells of text (Score as a number).
\* pandas.read_csv infers a column's type: a RollNumber column all of whose
\* cells are numerals becomes int64, anything else stays text.
IsNumeral(t) == t \in {"7", "07"}

\* str(int(t)): the text an int64 cell is written back as
Canon(t) == IF t = "07" THEN "7" ELSE t

\* A DataFrame cell of the RollNumber column: isInt tells int64 from str.
StrCell(t) == [isInt |-> FALSE, txt |-> t]

IntCell(t) == [isInt |-> TRUE, txt |-> Canon(t)]

AllNumeral(rows) == Len(rows) > 0 /\ \A i \in 1..Len(rows) : IsNumeral(rows[i].RollNumber)

\* pd.read_csv(SCORE_FILE)
read_csv(rows) ==
    [i \in 1..Len(rows) |->
        [RollNumber |-> IF AllNumeral(rows) THEN IntCell(rows[i].RollNumber)
                                            ELSE StrCell(rows[i].RollNumber),
         Name |-> rows[i].Name,
         Score |-> rows[i].Score]]

\* scores_df.to_csv(SCORE_FILE, index=False)
to_csv(df) ==
    [i \in 1..Len(df) |->
        [RollNumber |-> df[i].RollNumber.txt, Name |-> df[i].Name, Score |-> df[i].Score]]

\* roll_number in scores_df["RollNumber"].values, roll_number being a str:
\* a str never equals an int64
InValues(r, df) == \E i \in 1..Len(df) : df[i].RollNumber = StrCell(r)

VARIABLES
    pool,         \* content of ai_finance_mcqs.json
    rng,          \* state of the module-level random generator
    fileExists,   \* os.path.exists(SCORE_FILE)
    file,         \* rows of user_scores.csv
    now,          \* time.time()
    pc,           \* where each session's script stands
    started, finished, questions, current_q, responses, score,
    roll_number, name, start_time,      \* st.session_state of each session
    warning,      \* the st.warning of the login form is on the page
    button,       \* st.button("Lock Answer") was True in the last script run
    elapsed,      \* local `elapsed` of the last script run (0 if not computed)
    form,         \* roll number and name submitted, while get_user_mcqs runs
    qlist,        \* local list `questions` of get_user_mcqs
    shuf_i,       \* loop index of random.shuffle
    scores_df,    \* local DataFrame of save_score
    checkbox,     \* "Show Leaderboard" is ticked
    leaderboard,  \* the DataFrame shown by "Show Leaderboard"
    top_score,    \* leaderboard.iloc[0]["Score"]
    winners       \* the names of the "Top Scorer(s)" line

sessionState == <<started, finished, questions, current_q, responses, score,
                  roll_number, name, start_time>>

locals == <<form, qlist, shuf_i, scores_df>>

board == <<checkbox, leaderboard, top_score, winners>>

vars == <<pool, rng, fileExists, file, now, pc, sessionState, warning, button, elapsed, locals, board>>

EmptyMap == [i \in {} |-> "a"]

NoForm == [roll |-> "", name |-> ""]

\* load_scores()
load_scores == IF fileExists THEN read_csv(file) ELSE <<>>

Init ==
    /\ pool \in {load_mcqs(n) : n \in PoolLens}
    /\ rng = 0
    /\ fileExists = FALSE
    /\ file = <<>>
    /\ now = 0
    /\ pc = [s \in Sess |-> "login"]
    /\ started = [s \in Sess |-> FALSE]
    /\ finished = [s \in Sess |-> FALSE]
    /\ questions = [s \in Sess |-> <<>>]
    /\ current_q = [s \in Sess |-> 0]
    /\ responses = [s \in Sess |-> EmptyMap]
    /\ score = [s \in Sess |-> 0]
    /\ roll_number = [s \in Sess |-> ""]
    /\ name = [s \in Sess |-> ""]
    /\ start_time = [s \in Sess |-> 0]
    /\ warning = [s \in Sess |-> FALSE]
    /\ button = [s \in Sess |-> FALSE]
    /\ elapsed = [s \in Sess |-> 0]
    /\ form = [s \in Sess |-> NoForm]
    /\ qlist = [s \in Sess |-> <<>>]
    /\ shuf_i = [s \in Sess |-> 0]
    /\ scores_df = [s \in Sess |-> <<>>]
    /\ checkbox = FALSE
    /\ leaderboard = <<>>
    /\ top_score = 0
    /\ winners = <<>>

\* The clock advances.
Tick ==
    /\ now + TickStep <= MaxNow
    /\ now' = now + TickStep
    /\ UNCHANGED <<pool, rng, fileExists, file, pc, sessionState, warning, button, elapsed, locals, board>>

\* "Start Game" with a roll number that is in the score file: the warning.
LoginRejected(s, r, n) ==
    /\ pc[s] = "login"
    /\ ~started[s]
    /\ InValues(r, load_scores)
    /\ warning' = [warning EXCEPT ![s] = TRUE]
    /\ UNCHANGED <<button, elapsed, pool, rng, fileExists, file, now, pc, sessionState, locals, board>>

\* "Start Game" with a roll number that is not in the score file:
\* get_user_mcqs(seed=roll_number) seeds the generator and loads the file.
Login(s, r, n) ==
    /\ pc[s] = "login"
    /\ ~started[s]
    /\ ~InValues(r, load_scores)
    /\ rng' = random_seed(rng, r)
    /\ qlist' = [qlist EXCEPT ![s] = pool]
    /\ shuf_i' = [shuf_i EXCEPT ![s] = Len(pool) - 1]
    /\ form' = [form EXCEPT ![s] = [roll |-> r, name |-> n]]
    /\ warning' = [warning EXCEPT ![s] = FALSE]
    /\ pc' = [pc EXCEPT ![s] = "shuffle"]
    /\ UNCHANGED <<button, elapsed, pool, fileExists, file, now, sessionState, scores_df, board>>

\* One iteration of random.shuffle:
\* for i in reversed(range(1, len(x))): j = randbelow(i + 1); swap x[i], x[j]
ShuffleStep(s) ==
    /\ pc[s] = "shuffle"
    /\ shuf_i[s] >= 1
    /\ rng' = RngNext(rng)
    /\ qlist' = [qlist EXCEPT ![s] =
                    Swap(qlist[s], shuf_i[s] + 1, RandBelow(rng, shuf_i[s] + 1) + 1)]
    /\ shuf_i' = [shuf_i EXCEPT ![s] = shuf_i[s] - 1]
    /\ UNCHANGED <<pool, fileExists, file, now, pc, sessionState, warning, button, elapsed,
                   form, scores_df, board>>

\* get_user_mcqs returns questions[:20]; the session state is initialised.
StartSession(s) ==
    /\ pc[s] = "shuffle"
    /\ shuf_i[s] < 1
    /\ questions' = [questions EXCEPT ![s] = Take(qlist[s], K)]
    /\ current_q' = [current_q EXCEPT ![s] = 0]
    /\ responses' = [responses EXCEPT ![s] = EmptyMap]
    /\ score' = [score EXCEPT ![s] = 0]
    /\ roll_number' = [roll_number EXCEPT ![s] = form[s].roll]
    /\ name' = [name EXCEPT ![s] = form[s].name]
    /\ start_time' = [start_time EXCEPT ![s] = now]
    /\ finished' = [finished EXCEPT ![s] = FALSE]
    /\ started' = [started EXCEPT ![s] = TRUE]
    /\ form' = [form EXCEPT ![s] = NoForm]
    /\ qlist' = [qlist EXCEPT ![s] = <<>>]
    /\ shuf_i' = [shuf_i EXCEPT ![s] = 0]
    /\ pc' = [pc EXCEPT ![s] = "quiz"]
    /\ button' = [button EXCEPT ![s] = FALSE]
    /\ elapsed' = [elapsed EXCEPT ![s] = 0]
    /\ UNCHANGED <<pool, rng, fileExists, file, now, warning, scores_df, board>>

\* remaining = max(0, 30 - int(elapsed))
Remaining(s) ==
    IF T - (now - start_time[s]) > 0 THEN T - (now - start_time[s]) ELSE 0

\* Timeout with the bound of the question index off by one.
TimeoutOffByOne(s, clicked) ==
    /\ pc[s] = "quiz"
    /\ started[s] /\ ~finished[s]
    /\ current_q[s] <= Len(questions[s])
    /\ Remaining(s) = 0
    /\ current_q' = [current_q EXCEPT ![s] = current_q[s] + 1]
    /\ start_time' = [start_time EXCEPT ![s] = now]
    /\ button' = [button EXCEPT ![s] = clicked]
    /\ elapsed' = [elapsed EXCEPT ![s] = now - start_time[s]]
    /\ UNCHANGED <<pool, rng, fileExists, file, now, pc, started, finished, questions,
                   responses, score, roll_number, name, warning, locals, board>>

\* Timeout that records the option selected on the page as a response.
TimeoutRecords(s, clicked) ==
    /\ pc[s] = "quiz"
    /\ started[s] /\ ~finished[s]
    /\ current_q[s] < Len(questions[s])
    /\ Remaining(s) = 0
    /\ responses' = [responses EXCEPT ![s] =
                        [i \in DOMAIN responses[s] \cup {current_q[s]} |->
                            IF i = current_q[s] THEN "a" ELSE responses[s][i]]]
    /\ current_q' = [current_q EXCEPT ![s] = current_q[s] + 1]
    /\ start_time' = [start_time EXCEPT ![s] = now]
    /\ button' = [button EXCEPT ![s] = clicked]
    /\ elapsed' = [elapsed EXCEPT ![s] = now - start_time[s]]
    /\ UNCHANGED <<pool, rng, fileExists, file, now, pc, started, finished, questions,
                   score, roll_number, name, warning, locals, board>>

\* Timeout that restarts the clock of the question without leaving it.
TimeoutNoAdvance(s, clicked) ==
    /\ pc[s] = "quiz"
    /\ started[s] /\ ~finished[s]
    /\ current_q[s] < Len(questions[s])
    /\ Remaining(s) = 0
    /\ start_time' = [start_time EXCEPT ![s] = now]
    /\ button' = [button EXCEPT ![s] = clicked]
    /\ elapsed' = [elapsed EXCEPT ![s] = now - start_time[s]]
    /\ UNCHANGED <<pool, rng, fileExists, file, now, pc, started, finished, questions,
                   current_q, responses, score, roll_number, name, warning, locals, board>>

\* Timeout whose rerun does not end the script run: a click of
\* "Lock Answer" in the same run is handled after it.
TimeoutFallsThrough(s, clicked) ==
    /\ pc[s] = "quiz"
    /\ started[s] /\ ~finished[s]
    /\ current_q[s] < Len(questions[s])
    /\ Remaining(s) = 0
    /\ responses' = [responses EXCEPT ![s] =
                        IF clicked
                        THEN [i \in DOMAIN responses[s] \cup {current_q[s]} |->
                                 IF i = current_q[s] THEN "a" ELSE responses[s][i]]
                        ELSE responses[s]]
    /\ score' = [score EXCEPT ![s] =
                    IF clicked /\ "a" = Answer(questions[s][current_q[s] + 1])
                    THEN score[s] + 1 ELSE score[s]]
    /\ current_q' = [current_q EXCEPT ![s] = current_q[s] + (IF clicked THEN 2 ELSE 1)]
    /\ start_time' = [start_time EXCEPT ![s] = now]
    /\ button' = [button EXCEPT ![s] = clicked]
    /\ elapsed' = [elapsed EXCEPT ![s] = now - start_time[s]]
    /\ UNCHANGED <<pool, rng, fileExists, file, now, pc, started, finished, questions,
                   roll_number, name, warning, locals, board>>

\* Timeout that skips every question whose window has passed and keeps the
\* windows on their original schedule.
TimeoutCatchUp(s, clicked) ==
    /\ pc[s] = "quiz"
    /\ started[s] /\ ~finished[s]
    /\ current_q[s] < Len(questions[s])
    /\ Remaining(s) = 0
    /\ current_q' = [current_q EXCEPT ![s] =
                        IF current_q[s] + ((now - start_time[s]) \div T) > Len(questions[s])
                        THEN Len(questions[s])
                        ELSE current_q[s] + ((now - start_time[s]) \div T)]
    /\ start_time' = [start_time EXCEPT ![s] =
                        start_time[s] + ((now - start_time[s]) \div T) * T]
    /\ button' = [button EXCEPT ![s] = clicked]
    /\ elapsed' = [elapsed EXCEPT ![s] = now - start_time[s]]
    /\ UNCHANGED <<pool, rng, fileExists, file, now, pc, started, finished, questions,
                   responses, score, roll_number, name, warning, locals, board>>

\* A script run of the quiz with the time up: the question is skipped,
\* whether or not "Lock Answer" was clicked in this run.
Timeout(s, clicked) ==
    /\ pc[s] = "quiz"
    /\ started[s] /\ ~finished[s]
    /\ current_q[s] < Len(questions[s])
    /\ Remaining(s) = 0
    /\ current_q' = [current_q EXCEPT ![s] = current_q[s] + 1]
    /\ start_time' = [start_time EXCEPT ![s] = now]
    /\ button' = [button EXCEPT ![s] = clicked]
    /\ elapsed' = [elapsed EXCEPT ![s] = now - start_time[s]]
    /\ UNCHANGED <<pool, rng, fileExists, file, now, pc, started, finished, questions,
                   responses, score, roll_number, name, warning, locals, board>>

\* LockAnswer that credits every locked answer.
LockAnswerAlways(s, selected) ==
    /\ pc[s] = "quiz"
    /\ started[s] /\ ~finished[s]
    /\ current_q[s] < Len(questions[s])
    /\ Remaining(s) # 0
    /\ responses' = [responses EXCEPT ![s] =
                        [i \in DOMAIN responses[s] \cup {current_q[s]} |->
                            IF i = current_q[s] THEN selected ELSE responses[s][i]]]
    /\ score' = [score EXCEPT ![s] = score[s] + 1]
    /\ current_q' = [current_q EXCEPT ![s] = current_q[s] + 1]
    /\ start_time' = [start_time EXCEPT ![s] = now]
    /\ button' = [button EXCEPT ![s] = TRUE]
    /\ elapsed' = [elapsed EXCEPT ![s] = now - start_time[s]]
    /\ UNCHANGED <<pool, rng, fileExists, file, now, pc, started, finished, questions,
                   roll_number, name, warning, locals, board>>

\* LockAnswer that counts the answer without storing the response.
LockAnswerNoRecord(s, selected) ==
    /\ pc[s] = "quiz"
    /\ started[s] /\ ~finished[s]
    /\ current_q[s] < Len(questions[s])
    /\ Remaining(s) # 0
    /\ score' = [score EXCEPT ![s] =
                    IF selected = Answer(questions[s][current_q[s] + 1])
                    THEN score[s] + 1 ELSE score[s]]
    /\ current_q' = [current_q EXCEPT ![s] = current_q[s] + 1]
    /\ start_time' = [start_time EXCEPT ![s] = now]
    /\ button' = [button EXCEPT ![s] = TRUE]
    /\ elapsed' = [elapsed EXCEPT ![s] = now - start_time[s]]
    /\ UNCHANGED <<pool, rng, fileExists, file, now, pc, started, finished, questions,
                   responses, roll_number, name, warning, locals, board>>

\* A script run of the quiz with time left and "Lock Answer" clicked.
LockAnswer(s, selected) ==
    /\ pc[s] = "quiz"
    /\ started[s] /\ ~finished[s]
    /\ current_q[s] < Len(questions[s])
    /\ Remaining(s) # 0
    /\ responses' = [responses EXCEPT ![s] =
                        [i \in DOMAIN responses[s] \cup {current_q[s]} |->
                            IF i = current_q[s] THEN selected ELSE responses[s][i]]]
    /\ score' = [score EXCEPT ![s] =
                    IF selected = Answer(questions[s][current_q[s] + 1])
                    THEN score[s] + 1 ELSE score[s]]
    /\ current_q' = [current_q EXCEPT ![s] = current_q[s] + 1]
    /\ start_time' = [start_time EXCEPT ![s] = now]
    /\ button' = [button EXCEPT ![s] = TRUE]
    /\ elapsed' = [elapsed EXCEPT ![s] = now - start_time[s]]
    /\ UNCHANGED <<pool, rng, fileExists, file, now, pc, started, finished, questions,
                   roll_number, name, warning, locals, board>>

\* The completion branch entered one question early.
SaveLoadEarly(s) ==
    /\ pc[s] = "quiz"
    /\ started[s] /\ ~finished[s]
    /\ current_q[s] >= Len(questions[s]) - 1
    /\ scores_df' = [scores_df EXCEPT ![s] = load_scores]
    /\ pc' = [pc EXCEPT ![s] = "saving"]
    /\ button' = [button EXCEPT ![s] = FALSE]
    /\ elapsed' = [elapsed EXCEPT ![s] = 0]
    /\ UNCHANGED <<pool, rng, fileExists, file, now, sessionState, warning,
                   form, qlist, shuf_i, board>>

\* The completion branch without the test of the finished flag.
SaveLoadAgain(s) ==
    /\ pc[s] \in {"quiz", "done"}
    /\ started[s]
    /\ current_q[s] >= Len(questions[s])
    /\ scores_df' = [scores_df EXCEPT ![s] = load_scores]
    /\ pc' = [pc EXCEPT ![s] = "saving"]
    /\ button' = [button EXCEPT ![s] = FALSE]
    /\ elapsed' = [elapsed EXCEPT ![s] = 0]
    /\ UNCHANGED <<pool, rng, fileExists, file, now, sessionState, warning,
                   form, qlist, shuf_i, board>>

\* A script run past the last question: save_score reads the score file.
SaveLoad(s) ==
    /\ pc[s] = "quiz"
    /\ started[s] /\ ~finished[s]
    /\ current_q[s] >= Len(questions[s])
    /\ scores_df' = [scores_df EXCEPT ![s] = load_scores]
    /\ pc' = [pc EXCEPT ![s] = "saving"]
    /\ button' = [button EXCEPT ![s] = FALSE]
    /\ elapsed' = [elapsed EXCEPT ![s] = 0]
    /\ UNCHANGED <<pool, rng, fileExists, file, now, sessionState, warning,
                   form, qlist, shuf_i, board>>

\* pd.concat([scores_df, new_entry]) of save_score
Concat(df, r, n, sc) == Append(df, [RollNumber |-> StrCell(r), Name |-> n, Score |-> sc])

\* save_score writes the file; the session is finished.
SaveWrite(s) ==
    /\ pc[s] = "saving"
    /\ file' = to_csv(Concat(scores_df[s], roll_number[s], name[s], score[s]))
    /\ fileExists' = TRUE
    /\ scores_df' = [scores_df EXCEPT ![s] = <<>>]
    /\ finished' = [finished EXCEPT ![s] = TRUE]
    /\ pc' = [pc EXCEPT ![s] = "done"]
    /\ UNCHANGED <<pool, rng, now, started, questions, current_q, responses, score,
                   roll_number, name, start_time, warning, button, elapsed, form, qlist, shuf_i, board>>

\* ------------------------------------------------------------ leaderboard
\* The orders in which n rows can be arranged.
Perms(n) == {p \in [1..n -> 1..n] : \A i, j \in 1..n : i # j => p[i] # p[j]}

\* The rows of df arranged by p
Arrange(df, p) == [i \in 1..Len(df) |-> df[p[i]]]

\* The Score column does not increase from one row to the next.
Descending(df) == \A i \in 1..(Len(df) - 1) : df[i].Score >= df[i + 1].Score

\* sort_values with ascending=True
sort_values_ascending(df) ==
    {d \in {Arrange(df, p) : p \in Perms(Len(df))} :
        \A i \in 1..(Len(d) - 1) : d[i].Score <= d[i + 1].Score}

\* sort_values(by="Score", ascending=False).reset_index(drop=True): the sort
\* kind is the default "quicksort", which is not stable, so rows of equal
\* Score come out in any order.
sort_values(df) == {d \in {Arrange(df, p) : p \in Perms(Len(df))} : Descending(d)}

\* The name of the first row only: leaderboard.iloc[0]["Name"]
NamesFirstOnly(df, sc) == <<df[1].Name>>

\* leaderboard[leaderboard["Score"] == top_score]["Name"].tolist()
NamesWithScore(df, sc) ==
    LET hit == SelectSeq(df, LAMBDA row : row.Score = sc)
    IN  [i \in 1..Len(hit) |-> hit[i].Name]

\* A script run with "Show Leaderboard" ticked.
ShowLeaderboard ==
    /\ \E d \in sort_values(load_scores) :
          /\ leaderboard' = d
          /\ IF Len(d) = 0
             THEN top_score' = 0 /\ winners' = <<>>
             ELSE top_score' = d[1].Score /\ winners' = NamesWithScore(d, d[1].Score)
    /\ checkbox' = TRUE
    /\ UNCHANGED <<pool, rng, fileExists, file, now, pc, sessionState, warning, button, elapsed, locals>>

\* A script run with "Show Leaderboard" not ticked: nothing is shown.
HideLeaderboard ==
    /\ checkbox
    /\ checkbox' = FALSE
    /\ leaderboard' = <<>>
    /\ top_score' = 0
    /\ winners' = <<>>
    /\ UNCHANGED <<pool, rng, fileExists, file, now, pc, sessionState, warning, button, elapsed, locals>>

Next ==
    \/ Tick
    \/ \E s \in Sess, r \in Rolls, n \in Names : LoginRejected(s, r, n)
    \/ \E s \in Sess, r \in Rolls, n \in Names : Login(s, r, n)
    \/ \E s \in Sess : ShuffleStep(s)
    \/ \E s \in Sess : StartSession(s)
    \/ \E s \in Sess, clicked \in BOOLEAN : Timeout(s, clicked)
    \/ \E s \in Sess, selected \in Options : LockAnswer(s, selected)
    \/ \E s \in Sess : SaveLoad(s)
    \/ \E s \in Sess : SaveWrite(s)

Spec == Init /\ [][Next]_vars

\* The leaderboard page over a score file that earlier sessions have left.
BoardNames == {"Ann", "Bob"}

\* Ann plays under the roll number R1, Bob under 07.
BoardRows ==
    {[RollNumber |-> IF n = "Ann" THEN "R1" ELSE "07", Name |-> n, Score |-> sc] :
        n \in BoardNames, sc \in 0..K}

SeqsUpTo(S, n) == UNION {[1..m -> S] : m \in 0..n}

InitBoard ==
    /\ pool \in {load_mcqs(n) : n \in PoolLens}
    /\ rng = 0
    /\ file \in SeqsUpTo(BoardRows, MaxRows)
    /\ fileExists = (Len(file) > 0)
    /\ now = 0
    /\ pc = [s \in Sess |-> "login"]
    /\ started = [s \in Sess |-> FALSE]
    /\ finished = [s \in Sess |-> FALSE]
    /\ questions = [s \in Sess |-> <<>>]
    /\ current_q = [s \in Sess |-> 0]
    /\ responses = [s \in Sess |-> EmptyMap]
    /\ score = [s \in Sess |-> 0]
    /\ roll_number = [s \in Sess |-> ""]
    /\ name = [s \in Sess |-> ""]
    /\ start_time = [s \in Sess |-> 0]
    /\ warning = [s \in Sess |-> FALSE]
    /\ button = [s \in Sess |-> FALSE]
    /\ elapsed = [s \in Sess |-> 0]
    /\ form = [s \in Sess |-> NoForm]
    /\ qlist = [s \in Sess |-> <<>>]
    /\ shuf_i = [s \in Sess |-> 0]
    /\ scores_df = [s \in Sess |-> <<>>]
    /\ checkbox = FALSE
    /\ leaderboard = <<>>
    /\ top_score = 0
    /\ winners = <<>>

NextBoard ==
    \/ ShowLeaderboard
    \/ HideLeaderboard

SpecBoard == InitBoard /\ [][NextBoard]_vars

\* get_user_mcqs calls that do not overlap: at most one session is between
\* its random.seed and the end of its random.shuffle.
NextSeq == Next /\ Cardinality({s \in Sess : pc'[s] = "shuffle"}) <= 1

SpecSeq == Init /\ [][NextSeq]_vars

\* A question is on the page of session s.
Active(s) == pc[s] = "quiz" /\ started[s] /\ ~finished[s] /\ current_q[s] < Len(questions[s])

\* The time of the question on the page of session s is up and no script
\* run has seen it yet.
TimeUp(s) == Active(s) /\ Remaining(s) = 0

\* The page is polled in every question's window: the clock does not reach
\* its next sample while a question whose time is up waits for a script run.
\* Session 1 is played in every way; the other sessions lock no answer.
NextPolled ==
    /\ Next
    /\ now' # now => \A s \in Sess : ~TimeUp(s)
    /\ \A s \in Sess \ {1} : responses'[s] = EmptyMap

\* A script run that is due happens: the rerun after the last question, the
\* write of save_score, the poll of a question whose time is up.
Fairness ==
    /\ WF_vars(Tick /\ \A s \in Sess : ~TimeUp(s))
    /\ \A s \in Sess :
          /\ WF_vars(\E clicked \in BOOLEAN : Timeout(s, clicked))
          /\ WF_vars(SaveLoad(s))
          /\ WF_vars(SaveWrite(s))

SpecLive == Init /\ [][NextPolled]_vars /\ Fairness

\* ------------------------------------------------------------- properties
\* The identity a row of the score file stands for (07 and 7 are one number).
RowsOf(r) == {i \in 1..Len(file) : Canon(file[i].RollNumber) = Canon(r)}

\* Responses of session s that equal the answer of their question
Correct(s) ==
    {i \in DOMAIN responses[s] : responses[s][i] = Answer(questions[s][i + 1])}

\* C1: the score file holds at most one row per roll number, whatever the
\* sessions do and however their steps interleave.
C1_OneAttemptPerIdentity ==
    \A i, j \in 1..Len(file) :
        i # j => Canon(file[i].RollNumber) # Canon(file[j].RollNumber)

\* C2: once a session has run to completion and its row is written, a
\* later "Start Game" with the same roll number is rejected: the session
\* that submits it does not enter get_user_mcqs.
C2_SecondStartRejected ==
    [][\A s, t \in Sess :
          (s # t /\ finished[s] /\ pc[t] = "login" /\ pc'[t] = "shuffle")
              => form'[t].roll # roll_number[s]]_vars

\* C3: when the completion branch has run twice for one roll number, the
\* score file holds exactly one row for it.
C3_IdempotentCompletion ==
    \A s, t \in Sess :
        (s # t /\ finished[s] /\ finished[t] /\ roll_number[s] = roll_number[t])
            => Cardinality(RowsOf(roll_number[s])) = 1

\* C4: a session's score is the number of its responses that equal the
\* answer of their question, and the row save_score has just written
\* carries that number.
C4_ScoreCountsCorrect ==
    /\ \A s \in Sess : score[s] = Cardinality(Correct(s))
    /\ fileExists =>
          \E s \in Sess :
              /\ finished[s]
              /\ file[Len(file)].Score = Cardinality(Correct(s))
              /\ file[Len(file)].RollNumber = roll_number[s]

\* A finished session that locked one right answer and let a question time out
C4_Witness ==
    \E s \in Sess :
        /\ finished[s]
        /\ current_q[s] = K
        /\ Cardinality(DOMAIN responses[s]) = K - 1
        /\ score[s] = K - 1
        /\ file[Len(file)].Score = K - 1

\* C5: a script run that finds the time of the current question up leaves
\* the score and the responses as they are, advances the question index by
\* one, and the skipped question has no response to count.
C5_TimeoutCreditsNothing ==
    [][\A s \in Sess :
          (/\ pc[s] = "quiz" /\ ~finished[s]
           /\ current_q[s] < Len(questions[s])
           /\ Remaining(s) = 0
           /\ <<current_q[s], responses[s], score[s]>>
                  # <<current_q'[s], responses'[s], score'[s]>>)
              => /\ score'[s] = score[s]
                 /\ responses'[s] = responses[s]
                 /\ current_q'[s] = current_q[s] + 1
                 /\ current_q[s] \notin DOMAIN responses'[s]]_vars

\* A session whose first question timed out
C5_Witness ==
    \E s \in Sess :
        /\ started[s]
        /\ current_q[s] >= 1
        /\ 0 \notin DOMAIN responses[s]
        /\ score[s] = 0

C7_SubsetValid ==
    \A s \in Sess :
        started[s] =>
            /\ Len(questions[s]) = K
            /\ \A i \in 1..Len(questions[s]) :
                  \E j \in 1..Len(pool) : questions[s][i] = pool[j]
            /\ \A i, j \in 1..Len(questions[s]) :
                  i # j => questions[s][i] # questions[s][j]

\* The stable descending sort: each row goes behind the rows placed before
\* it whose Score is at least its own.
RECURSIVE StableDesc(_)
StableDesc(df) ==
    IF Len(df) = 0 THEN <<>>
    ELSE LET front == StableDesc(SubSeq(df, 1, Len(df) - 1))
             row == df[Len(df)]
             k == Cardinality({i \in 1..Len(front) : front[i].Score >= row.Score})
         IN  SubSeq(front, 1, k) \o <<row>> \o SubSeq(front, k + 1, Len(front))

C9_TopScorers ==
    checkbox =>
        LET df == load_scores
        IN  IF Len(df) = 0
            THEN winners = <<>>
            ELSE /\ \A i \in 1..Len(df) : df[i].Score <= top_score
                 /\ \E i \in 1..Len(df) : df[i].Score = top_score
                 /\ LET top == SelectSeq(leaderboard, LAMBDA row : row.Score = top_score)
                    IN  /\ Len(winners) = Len(top)
                        /\ \A i \in 1..Len(top) : winners[i] = top[i].Name
                 /\ Len(winners) = Cardinality({i \in 1..Len(df) : df[i].Score = top_score})

\* Two top scorers above a third row
C9_Witness ==
    /\ checkbox
    /\ Len(leaderboard) = 3
    /\ Len(winners) = 2
    /\ winners[1] # winners[2]
    /\ top_score > leaderboard[3].Score

\* The leaderboard asked for with nobody having played
C9_WitnessEmpty == checkbox /\ Len(load_scores) = 0 /\ winners = <<>>

\* C10: in every state 0 <= score <= current_q <= K for every session and
\* 0 <= Score <= K for every row of the score file, and no step lowers a
\* session's score or question index.
C10_ScoreBound ==
    /\ [](\A s \in Sess : 0 <= score[s] /\ score[s] <= current_q[s] /\ current_q[s] <= K)
    /\ [](\A i \in 1..Len(file) : 0 <= file[i].Score /\ file[i].Score <= K)
    /\ [][\A s \in Sess : score'[s] >= score[s] /\ current_q'[s] >= current_q[s]]_vars

\* A row with the full score K in the score file
C10_Witness ==
    \E s \in Sess :
        /\ finished[s]
        /\ score[s] = K
        /\ current_q[s] = K
        /\ \E i \in 1..Len(file) : file[i].Score = K

\* The first clock sample at which a question that started on a sample is
\* seen with its time up.
Window == ((T + TickStep - 1) \div TickStep) * TickStep

\* The latest time at which session s is past its last question when only
\* timeouts advance it.
DueBy(s) == start_time[s] + (Len(questions[s]) - current_q[s]) * Window

C12_AppendOnly ==
    [][\A i \in 1..Len(file) : \E j \in 1..Len(file') : file'[j] = file[i]]_vars

\* The session state of s
SessionOf(s) ==
    <<started[s], finished[s], questions[s], current_q[s], responses[s], score[s],
      roll_number[s], name[s], start_time[s]>>

\* C13: a step of one session leaves the session state of the others as it
\* is, and every started session holds the questions that get_user_mcqs
\* yields for its roll number when it runs alone.
C13_NoSharedState ==
    /\ [][\A s, t \in Sess :
            (s # t /\ SessionOf(s)' # SessionOf(s)) => SessionOf(t)' = SessionOf(t)]_vars
    /\ [](\A s \in Sess :
            started[s] => questions[s] = get_user_mcqs(pool, roll_number[s]))

\* C14 as stated: the question index of a session is the number of its
\* responses.
C14_IndexEqualsResponses ==
    \A s \in Sess : current_q[s] = Cardinality(DOMAIN responses[s])

\* C14 amended: every response is for a question before the question index,
\* and an advance of the index adds one response when an answer is locked
\* and none when the time of the question is up.
C14_IndexCountsLocksAndTimeouts ==
    /\ [](\A s \in Sess : DOMAIN responses[s] \subseteq 0..(current_q[s] - 1))
    /\ [][\A s \in Sess :
            current_q'[s] # current_q[s] =>
                Cardinality(DOMAIN responses'[s]) - Cardinality(DOMAIN responses[s])
                    = (IF Remaining(s) = 0 THEN 0 ELSE 1)]_vars

\* A session past K questions, one of them timed out, the others locked
C14_Witness ==
    \E s \in Sess :
        /\ current_q[s] = K
        /\ Cardinality(DOMAIN responses[s]) = K - 1
        /\ pc[s] = "quiz"

\* C15 as stated: a session that is started and not finished has its
\* question index below K.
C15_ActiveBelowK ==
    \A s \in Sess : (started[s] /\ ~finished[s]) => current_q[s] < K

\* C15 amended: the question index never passes the number of questions, a
\* finished session has it at that number, and a session that is there and
\* not finished has no question on its page: no script run changes its
\* index, responses or score, the next one saves the score.
C15_CompletionOnNextRun ==
    /\ [](\A s \in Sess :
            started[s] =>
                /\ current_q[s] <= Len(questions[s])
                /\ finished[s] => current_q[s] = Len(questions[s])
                /\ pc[s] \in {"saving", "done"} => current_q[s] = Len(questions[s]))
    /\ [][\A s \in Sess :
            (started[s] /\ current_q[s] = Len(questions[s]))
                => /\ <<current_q[s], responses[s], score[s]>>'
                        = <<current_q[s], responses[s], score[s]>>
                   /\ pc'[s] # pc[s] => pc'[s] \in {"saving", "done"}]_vars

\* A session past its K questions that has not saved its score
C15_Witness ==
    \E s \in Sess :
        /\ started[s] /\ ~finished[s]
        /\ pc[s] = "quiz"
        /\ current_q[s] = K
        /\ \A i \in 1..Len(file) : file[i].RollNumber # roll_number[s]

\* C16: a finished session stays finished, its question index, responses
\* and score stay as they are, and the score file is written only by a
\* session that finishes in that step.
C16_FinishedIsTerminal ==
    [][/\ \A s \in Sess :
            finished[s] =>
                /\ finished'[s]
                /\ pc'[s] = "done"
                /\ <<current_q[s], responses[s], score[s]>>'
                     = <<current_q[s], responses[s], score[s]>>
       /\ file' # file => \E s \in Sess : ~finished[s] /\ finished'[s]]_vars

\* A finished session at a time at which a question's time would be up,
\* and the other session has written the score file as well
C16_Witness ==
    \E s \in Sess :
        /\ finished[s]
        /\ now - start_time[s] >= T
        /\ Len(file) = 2

\* C17: with fewer than K questions in the question file no session is
\* started and none holds questions.
C17_SmallPoolRejected ==
    \A s \in Sess : Len(pool) < K => (~started[s] /\ questions[s] = <<>>)

\* C18: a session that saves its score has advanced through K questions,
\* and sessions started for one roll number hold the same questions.
C18_AttemptOnlyAfterAllK ==
    /\ \A s \in Sess : pc[s] \in {"saving", "done"} => current_q[s] = K
    /\ \A s, t \in Sess :
          (started[s] /\ started[t] /\ ~finished[s] /\ roll_number[s] = roll_number[t])
              => questions[s] = questions[t]

\* C19: a script run that finds the time of the question up and "Lock
\* Answer" clicked advances the question index by one and leaves the
\* responses and the score as they are.
C19_TimeoutBeforeLateAnswer ==
    [][\A s \in Sess :
          (TimeUp(s) /\ button'[s] /\ elapsed'[s] >= T /\ start_time'[s] = now
           /\ SessionOf(s)' # SessionOf(s))
              => /\ current_q'[s] = current_q[s] + 1
                 /\ responses'[s] = responses[s]
                 /\ score'[s] = score[s]]_vars

\* The last script run of a session had the click and the time up: the
\* first question is left without a response
C19_Witness ==
    \E s \in Sess :
        /\ button[s]
        /\ elapsed[s] >= T
        /\ current_q[s] = 1
        /\ responses[s] = EmptyMap
        /\ score[s] = 0

TypeOK ==
    /\ rng \in 0..(RngMod - 1)
    /\ now \in 0..MaxNow
    /\ \A s \in Sess : current_q[s] \in 0..K
====
